---- MODULE Spec2Model ----
(***************************************************************************)
(* useSignal (src/src/index.ts): one React hook that composes useTransition,*)
(* useState, useDeferredValue and useCallback, and returns                  *)
(*   [ smoothState ? state : deferredState,                                 *)
(*     noTransition ? setState : changeState ].                             *)
(*                                                                          *)
(* The model is one component instance that calls useSignal on every        *)
(* render.  A state is what React holds for the instance between renders:   *)
(* the three hooks' memoized values and update queues, the memoized         *)
(* callback, and the tuple the latest render returned.  The hooks are       *)
(* modelled by what React's reconciler does for them (update queues with    *)
(* lanes, rebasing of skipped updates, the deferred render of               *)
(* useDeferredValue); a render and its commit are one step.                 *)
(*                                                                          *)
(* The component passes the same options on every render (they are          *)
(* literals in every use the README shows); the initialState argument may   *)
(* change from render to render.  React itself is not part of the           *)
(* repository: what the model takes from it is stated where it is used.     *)
(***************************************************************************)
EXTENDS Integers, Sequences, FiniteSets

\* ---------------------------------------------------------------- bounds

\* Calls of the returned update function per behaviour.
MaxCalls == 3
\* The same, in the behaviours the liveness properties are checked on.
MaxLiveCalls == 2

\* The values of type S the component passes: two distinct ones (the updater
\* p => p + 1 adds what it reaches from them).
Values == {0, 1}

\* ----------------------------------------------------------------- lanes

\* The priority classes React gives an update.  "sync" is an update made in
\* a discrete event handler, "default" one made elsewhere (a timer, a frame
\* callback): both are urgent.  "transition" is an update made inside
\* startTransition and the deferred render useDeferredValue schedules; React
\* renders all pending transition lanes together.  "none" marks an update
\* that was already applied and is kept in the queue only to be replayed
\* after an earlier, skipped one.
NoLane == "none"
SyncLane == "sync"
DefaultLane == "default"
TransitionLane == "transition"
UrgentLanes == {SyncLane, DefaultLane}

\* The lanes the next render works on: the highest priority class pending.
getNextLanes(pending) ==
  IF SyncLane \in pending THEN {SyncLane}
  ELSE IF DefaultLane \in pending THEN {DefaultLane}
  ELSE IF TransitionLane \in pending THEN {TransitionLane}
  ELSE {}

\* useDeferredValue defers only in a render that works on an urgent lane.
includesOnlyNonUrgentLanes(lanes) == lanes \cap UrgentLanes = {}

\* ------------------------------------------------------- SetStateAction

\* A SetStateAction<S>: a value, or the updater prev => prev + v.
ValueAction(v) == [kind |-> "value", v |-> v]
UpdaterAction == [kind |-> "fn", v |-> 1]
Actions == {ValueAction(v) : v \in Values} \cup {UpdaterAction}

\* The initialState argument, taken as the value it denotes: a producer
\* () => v is called by the first render only and gives v.
InitialStates == Values

\* What setState does with an action when the update is processed.
basicStateReducer(prev, action) ==
  IF action.kind = "fn" THEN prev + action.v ELSE action.v

\* A render on `lanes` applies an update of one of these lanes, and one that
\* is in the queue only to be replayed.
Takes(u, lanes) == u.lane = NoLane \/ u.lane \in lanes

\* The updates q[i..j] a render on `lanes` applies, applied in queue order to v.
RECURSIVE applyUpdates(_, _, _, _, _)
applyUpdates(v, q, i, j, lanes) ==
  IF i > j THEN v
  ELSE applyUpdates(IF Takes(q[i], lanes) THEN basicStateReducer(v, q[i].action) ELSE v,
                    q, i + 1, j, lanes)

\* The place of the first update a render on `lanes` skips (Len(q) + 1: none).
firstSkipped(q, lanes) ==
  LET skipped == {i \in 1..Len(q) : ~Takes(q[i], lanes)}
  IN IF skipped = {} THEN Len(q) + 1
     ELSE CHOOSE i \in skipped : \A k \in skipped : i <= k

\* A state hook on a re-render, [memo, base, queue] after one pass over the
\* queue: an update whose lane is not rendered is skipped and kept; every
\* update after the first skipped one is kept too (with NoLane when it was
\* applied), so that a later render replays them in call order on top of the
\* skipped one.  memo is the value with every taken update applied; base is
\* the value before the first skipped update.
updateReducer(base, q, lanes) ==
  LET k == firstSkipped(q, lanes)
  IN [memo |-> applyUpdates(base, q, 1, Len(q), lanes),
      base |-> applyUpdates(base, q, 1, k - 1, lanes),
      queue |-> [i \in 1..(Len(q) - k + 1) |->
                   IF Takes(q[k + i - 1], lanes)
                   THEN [q[k + i - 1] EXCEPT !.lane = NoLane]
                   ELSE q[k + i - 1]]]

\* A state hook on the first render.
mountState(init) ==
  [memo |-> init, base |-> init, queue |-> <<>>]

\* The lanes with an update waiting in a queue.
QueueLanes(q) == {q[i].lane : i \in 1..Len(q)} \ {NoLane}

\* An update as React queues it.
Update(lane, action) == [lane |-> lane, action |-> action]

\* ------------------------------------------------------------ the hooks

\* Fault: the initial state is read again by every render with nothing queued.
useStateReinitialises(isMount, init, hook, lanes) ==
  IF isMount \/ hook.queue = <<>> THEN mountState(init)
  ELSE updateReducer(hook.base, hook.queue, lanes)

\* useState(initialState): the initial state is read on the first render
\* only; a re-render processes the queue.
useState(isMount, init, hook, lanes) ==
  IF isMount THEN mountState(init) ELSE updateReducer(hook.base, hook.queue, lanes)

\* useTransition(): isPending is a state hook of React's own, false at mount.
useTransition(isMount, hook, lanes) ==
  IF isMount THEN mountState(FALSE) ELSE updateReducer(hook.base, hook.queue, lanes)

\* Fault: the deferred value is never replaced after the first render.
useDeferredValueNeverAdopts(isMount, hook, value, lanes) ==
  IF isMount THEN [memo |-> value, lane |-> FALSE]
  ELSE [memo |-> hook.memo, lane |-> FALSE]

\* Fault: an urgent render keeps the previous value and schedules nothing.
useDeferredValueNoSchedule(isMount, hook, value, lanes) ==
  IF isMount THEN [memo |-> value, lane |-> FALSE]
  ELSE IF includesOnlyNonUrgentLanes(lanes) THEN [memo |-> value, lane |-> FALSE]
  ELSE [memo |-> hook.memo, lane |-> hook.lane]

\* useDeferredValue(value): [memo: the value returned, lane: a deferred
\* (transition lane) render is scheduled].  The first render returns the
\* value; an urgent re-render that sees a new value returns the previous one
\* and schedules the deferred render; a non-urgent re-render returns the new
\* value, and is the render that was scheduled.
useDeferredValue(isMount, hook, value, lanes) ==
  IF isMount THEN [memo |-> value, lane |-> FALSE]
  ELSE IF includesOnlyNonUrgentLanes(lanes) THEN [memo |-> value, lane |-> FALSE]
  ELSE [memo |-> hook.memo, lane |-> hook.lane \/ value # hook.memo]

\* Function objects.  setState is the same object on every render.  The
\* arrow function handed to useCallback is a new object on every render:
\* id 0 is the object the first render allocates, id 1 stands for the object
\* of any later render, which is never the first render's.
SetStateFn == [kind |-> "setState", id |-> 0]
ChangeStateFn(id) == [kind |-> "changeState", id |-> id]
ArrowFunction(isMount) == ChangeStateFn(IF isMount THEN 0 ELSE 1)

\* Fault: no dependency list, so every render returns its new function.
useCallbackEveryRender(isMount, memo, fresh) == fresh

\* useCallback(fn, []): the dependency list is empty, so after the first
\* render the memoized function is returned and the new one dropped.
useCallback(isMount, memo, fresh) ==
  IF isMount THEN fresh ELSE memo

\* Fault: the deferred value is returned whatever smoothState is.
ReturnedValueDeferred(smooth, st, deferred) == deferred

\* First element of the returned tuple.
ReturnedValue(smooth, st, deferred) ==
  IF smooth THEN st ELSE deferred

\* Fault: the two branches of the conditional are exchanged.
ReturnedUpdaterSwapped(noTr, setter, callback) ==
  IF noTr THEN callback ELSE setter

\* Second element of the returned tuple.
ReturnedUpdater(noTr, setter, callback) ==
  IF noTr THEN setter ELSE callback

\* ---------------------------------------------------------------- state

VARIABLES
  smoothState,      \* options.smoothState, as the component passes it
  noTransition,     \* options.noTransition, as the component passes it
  initialState,     \* the initialState argument of the latest render
  transitionHook,   \* useTransition: [memo, base, queue]
  stateHook,        \* useState: [memo, base, queue]
  deferredHook,     \* useDeferredValue: [memo, lane]
  changeState,      \* useCallback: the memoized function
  result,           \* the tuple the latest render returned
  callLog,          \* history: the actions the update function was called with
  initialValue,     \* history: the value the first render was given
  renderedSinceCall \* history: a render followed the latest call

vars == <<smoothState, noTransition, initialState, transitionHook, stateHook,
          deferredHook, changeState, result, callLog, initialValue,
          renderedSinceCall>>

options == <<smoothState, noTransition>>
history == <<callLog, initialValue>>

\* The names the hook gives what the latest render read.
isPending == transitionHook.memo
state == stateHook.memo
deferredState == deferredHook.memo
\* The updates queued for the state and for the pending flag.
queue == stateHook.queue
pendingQueue == transitionHook.queue

\* The lanes this instance has work on.
PendingLanes ==
  QueueLanes(queue) \cup QueueLanes(pendingQueue)
    \cup (IF deferredHook.lane THEN {TransitionLane} ELSE {})

\* One call of useSignal(init, options) in a render on `lanes`: every hook in
\* call order, then the returned tuple.
useSignal(isMount, init, lanes) ==
  /\ transitionHook' = useTransition(isMount, transitionHook, lanes)
  /\ stateHook' = useState(isMount, init, stateHook, lanes)
  /\ deferredHook' = useDeferredValue(isMount, deferredHook, stateHook'.memo, lanes)
  /\ changeState' = useCallback(isMount, changeState, ArrowFunction(isMount))
  /\ initialState' = init
  /\ result' = [value |-> ReturnedValue(smoothState, stateHook'.memo, deferredHook'.memo),
                fn |-> ReturnedUpdater(noTransition, SetStateFn, changeState')]

\* The state after the first render.
Init ==
  \E init \in InitialStates, smooth \in BOOLEAN, noTr \in BOOLEAN :
    LET t == useTransition(TRUE, <<>>, {})
        s == useState(TRUE, init, <<>>, {})
        d == useDeferredValue(TRUE, <<>>, s.memo, {})
        cb == useCallback(TRUE, ArrowFunction(TRUE), ArrowFunction(TRUE))
    IN /\ smoothState = smooth
       /\ noTransition = noTr
       /\ initialState = init
       /\ transitionHook = t
       /\ stateHook = s
       /\ deferredHook = d
       /\ changeState = cb
       /\ result = [value |-> ReturnedValue(smooth, s.memo, d.memo),
                    fn |-> ReturnedUpdater(noTr, SetStateFn, cb)]
       /\ callLog = <<>>
       /\ initialValue = init
       /\ renderedSinceCall = FALSE

\* ------------------------------------------------------------- actions

\* A re-render of the component.  `parent` is the lane of an update elsewhere
\* in the tree that re-renders the component too ({} when the render is for
\* the instance's own work).  React renders the highest priority lanes
\* pending; the component passes `init` as initialState again.
Render(init, parent) ==
  LET lanes == getNextLanes(PendingLanes \cup parent)
  IN /\ lanes # {}
     /\ parent \subseteq lanes
     /\ useSignal(FALSE, init, lanes)
     /\ renderedSinceCall' = TRUE
     /\ UNCHANGED <<options, history>>

\* React works off what the instance has pending.
RenderWork == \E init \in InitialStates : Render(init, {})

\* An ancestor re-renders the component.
ParentRender ==
  \E init \in InitialStates, lane \in UrgentLanes \cup {TransitionLane} :
    Render(init, {lane})

\* Fault: the update is queued twice.
dispatchSetStateTwice(q, lane, newState) ==
  q \o << Update(lane, newState), Update(lane, newState) >>

\* Fault: an update replaces the ones still queued.
dispatchSetStateOverwrites(q, lane, newState) == << Update(lane, newState) >>

\* setState(newState), called in a context whose updates get `lane`.
dispatchSetState(q, lane, newState) == Append(q, Update(lane, newState))

\* startTransition(cb): isPending is set with the caller's (urgent)
\* priority and cleared in the transition lane, the lane cb's updates get.
startTransition(pq, lane) ==
  pq \o << Update(lane, ValueAction(TRUE)), Update(TransitionLane, ValueAction(FALSE)) >>

\* The update function is setState itself (noTransition).  When the instance
\* has nothing pending and the action leaves the state as it is, React may
\* drop the update without a render; whether it does depends on state of the
\* reconciler that is not modelled, so both outcomes are possible.
setState(newState, lane) ==
  /\ \/ stateHook' = [stateHook EXCEPT !.queue = dispatchSetState(@, lane, newState)]
     \/ /\ PendingLanes = {}
        /\ basicStateReducer(state, newState) = state
        /\ UNCHANGED stateHook
  /\ UNCHANGED transitionHook

\* Fault: the callback handed to startTransition does not call setState.
changeStateCallNoUpdate(newState, lane) ==
  /\ transitionHook' = [transitionHook EXCEPT !.queue = startTransition(@, lane)]
  /\ UNCHANGED stateHook

\* Fault: the callback calls setState without startTransition.
changeStateCallNoTransition(newState, lane) ==
  /\ stateHook' = [stateHook EXCEPT !.queue = dispatchSetState(@, lane, newState)]
  /\ UNCHANGED transitionHook

\* The update function is the memoized callback:
\* startTransition(() => { setState(newState) }).  (The update of isPending
\* queued first leaves the instance with work pending, so the state update is
\* never dropped.)
changeStateCall(newState, lane) ==
  /\ transitionHook' = [transitionHook EXCEPT !.queue = startTransition(@, lane)]
  /\ stateHook' = [stateHook EXCEPT !.queue = dispatchSetState(@, TransitionLane, newState)]

\* The component (an event handler, a timer) calls the function the latest
\* render returned.
CallUpdate(newState, lane, maxCalls) ==
  /\ Len(callLog) < maxCalls
  /\ IF result.fn.kind = "setState" THEN setState(newState, lane)
     ELSE changeStateCall(newState, lane)
  /\ callLog' = Append(callLog, newState)
  /\ renderedSinceCall' = FALSE
  /\ UNCHANGED <<options, initialState, deferredHook, changeState, result,
                 initialValue>>

Call == \E newState \in Actions, lane \in UrgentLanes : CallUpdate(newState, lane, MaxCalls)

Next == Call \/ RenderWork \/ ParentRender

Spec == Init /\ [][Next]_vars

\* The behaviours the liveness properties are checked on: React's scheduler
\* always gets to the work the instance has pending.
LiveCall ==
  \E newState \in Actions, lane \in UrgentLanes : CallUpdate(newState, lane, MaxLiveCalls)

LiveNext == LiveCall \/ RenderWork \/ ParentRender

FairSpec == Init /\ [][LiveNext]_vars /\ WF_vars(RenderWork)

\* ----------------------------------------------------- history operators

\* What one call assigns, given the value the previous call left.
Assign(prev, action) == IF action.kind = "value" THEN action.v ELSE prev + 1

RECURSIVE SequentialResult(_, _)
SequentialResult(v, log) ==
  IF log = <<>> THEN v ELSE SequentialResult(Assign(v, Head(log)), Tail(log))

\* The value the calls made so far assign, taken in call order.
Expected == SequentialResult(initialValue, callLog)

\* Every value some call made so far assigned.
Assigned ==
  {SequentialResult(initialValue, SubSeq(callLog, 1, n)) : n \in 1..Len(callLog)}

OnlyUpdaters == \A i \in 1..Len(callLog) : callLog[i].kind = "fn"
DefaultOptions == ~smoothState /\ ~noTransition
\* The updates of the state hook that no render has applied yet.
Unapplied == {i \in 1..Len(queue) : queue[i].lane # NoLane}

\* ---------------------------------------------------------------- claims

\* C1: with default options, once the calls of the update function have
\* stopped, the current value the hook returns comes to equal the value the
\* last call assigned, and stays so.
C1_EventuallyCurrent == <>[](DefaultOptions => result.value = Expected)
C1_Witness ==
  /\ DefaultOptions /\ callLog # <<>> /\ renderedSinceCall
  /\ callLog[Len(callLog)].kind = "value"
  /\ Expected # initialValue /\ result.value = Expected

\* C2: with no options, every render before the first call of the update
\* function returns the value the first render was given, whatever
\* initialState argument the later renders pass.
C2_InitialValue ==
  (DefaultOptions /\ callLog = <<>>) => result.value = initialValue
C2_Witness ==
  /\ DefaultOptions /\ callLog = <<>> /\ renderedSinceCall
  /\ initialState # initialValue /\ result.value = initialValue

\* C3: with smoothState, every render returns the state hook's value of
\* that render, for either noTransition, also when the deferred value differs.
C3_SmoothReturnsState == smoothState => result.value = state
C3_Witness ==
  smoothState /\ deferredState # state /\ result.value = state

\* C4: with noTransition, the pending flag is false in every state, and no
\* update of it is ever queued, whatever calls of the update function are made.
C4_NeverPending == noTransition => (~isPending /\ pendingQueue = <<>>)
C4_Witness ==
  /\ noTransition /\ Len(callLog) >= 2 /\ renderedSinceCall
  /\ state = Expected /\ state # initialValue /\ ~isPending

\* C5: with default options, every render returns the initial value or a
\* value that one of the calls made so far assigned.
C5_OnlyAssignedValues ==
  DefaultOptions => result.value \in {initialValue} \cup Assigned
C5_Witness ==
  /\ DefaultOptions /\ Len(callLog) >= 2 /\ queue = <<>>
  /\ Cardinality(Assigned \cup {initialValue}) >= 3
  /\ result.value = Expected

\* C6: without noTransition, every render returns the same function object
\* as the render before it.
C6_StableUpdater == [][~noTransition => result'.fn = result.fn]_vars
C6_Witness ==
  /\ ~noTransition /\ renderedSinceCall /\ state # initialValue
  /\ result.fn = ChangeStateFn(0)

\* C7 as stated: with smoothState and without noTransition, every render
\* that follows updateFn(x) returns x.
C7_VeryNextRender ==
  (/\ smoothState /\ ~noTransition /\ callLog # <<>> /\ renderedSinceCall
   /\ callLog[Len(callLog)].kind = "value")
    => result.value = callLog[Len(callLog)].v
\* C7 as amended: with smoothState and without noTransition, a render that
\* follows the call returns the assigned value unless the transition is still
\* waiting to be rendered; once it was rendered, every render returns it.
C7_CurrentOnceTransitionRendered ==
  (smoothState /\ ~noTransition /\ result.value # Expected)
    => TransitionLane \in QueueLanes(queue)
C7_Witness ==
  /\ smoothState /\ ~noTransition /\ renderedSinceCall /\ queue = <<>>
  /\ callLog # <<>> /\ callLog[Len(callLog)].kind = "value"
  /\ result.value = callLog[Len(callLog)].v /\ result.value # initialValue

\* C8: with noTransition, every call is either applied or still queued: after
\* n calls with the updater prev => prev + 1 the state is the initial value
\* plus n less the calls not yet rendered; and with nothing left to render the
\* state is what the calls assign in call order.
C8_AllUpdatersApplied ==
  noTransition =>
    /\ OnlyUpdaters => state + Cardinality(Unapplied) = initialValue + Len(callLog)
    /\ Unapplied = {} => state = Expected
C8_Witness ==
  /\ noTransition /\ OnlyUpdaters /\ Len(callLog) = 3 /\ queue = <<>>
  /\ state = initialValue + 3

\* C9: without noTransition, a render changes the state only when the render
\* before it had the pending flag true, and a render that clears the flag
\* is one that has applied every call made so far.
C9_PendingOrder ==
  [][~noTransition =>
       /\ state' # state => isPending
       /\ (isPending /\ ~isPending') => (Unapplied' = {} /\ state' = Expected)]_vars
C9_Witness ==
  /\ ~noTransition /\ ~isPending /\ pendingQueue = <<>> /\ renderedSinceCall
  /\ callLog # <<>> /\ state = Expected /\ state # initialValue

\* C10: for every combination of the options, once the calls have stopped the
\* deferred value comes to equal the state, which is what the calls assigned,
\* and stays so; in the deferred only mode that is the value returned.
C10_DeferredConverges ==
  <>[](/\ deferredState = state
       /\ state = Expected
       /\ (~smoothState /\ noTransition) => result.value = Expected)
C10_Witness ==
  /\ ~smoothState /\ noTransition /\ deferredState # state /\ deferredHook.lane
  /\ result.value # state

====
